---- MODULE Spec2Model ----
(***************************************************************************)
(* Model of the SUZI reminder server, src/public/sw.js.  The file holds    *)
(* two variants of the server (lines 66-256 and lines 257-522); the        *)
(* variable `variant` says which one runs.  Time is in milliseconds since  *)
(* a model epoch that is a UTC midnight.                                    *)
(***************************************************************************)
EXTENDS Integers, Sequences, FiniteSets, TLC

VARIABLES variant, hostOffset, lineToken, lineSecret,
          clock, advances, plan,
          reminders, links,
          tick, ticksStarted, failures,
          pushed, delivered, overlapped, lastTick,
          pendingLinks, hook, replies, linkWrites

vars == <<variant, hostOffset, lineToken, lineSecret, clock, advances, plan,
          reminders, links, tick, ticksStarted, failures,
          pushed, delivered, overlapped, lastTick,
          pendingLinks, hook, replies, linkWrites>>

-----------------------------------------------------------------------------
(* Bounds of the model. *)
MaxAdvance == 5
MaxTicks == 2
MaxFailures == 1
PushCap == 2
MaxHooks == 2
MaxLinkAdvance == 3
MaxSweeps == 1

(* Program constants. *)
TokyoOffsetHours == 9
MorningHour == 8
OneSecond == 1000
OneHour == 60 * 60 * 1000
TenMinutes == 10 * 60 * 1000
FiveMinutes == 5 * 60 * 1000
DayMs == 24 * OneHour
TokyoOffset == TokyoOffsetHours * OneHour

-----------------------------------------------------------------------------
(* Date arithmetic of the evaluator. *)

(* new Date().toLocaleString("en-US", {timeZone: "Asia/Tokyo"}): the civil  *)
(* date and time of instant t in Tokyo, printed to the second.  The string  *)
(* is represented by the civil milliseconds, the sub-second part dropped.   *)
ToLocaleStringTokyo(t) ==
  (t + TokyoOffset) - ((t + TokyoOffset) % OneSecond)

(* new Date(s) for a date-time string s without a zone: s is read as civil  *)
(* time of the host's zone, off milliseconds east of UTC.                   *)
ParseLocal(s, off) == s - off

(* const now = new Date(new Date().toLocaleString(...)) *)
NowOf(t, off) == ParseLocal(ToLocaleStringTokyo(t), off)

(* new Date(r.timeISO): a string with a zone designator ("Z") is an         *)
(* instant; one without is civil time of the host's zone.                   *)
ParseTimeISO(iso, off) ==
  IF iso.form = "Z" THEN iso.t ELSE ParseLocal(iso.t, off)

(* morningTime = new Date(eventTime); morningTime.setHours(8, 0, 0, 0):     *)
(* 08:00:00.000 of the event's civil date in the host's zone.               *)
SetHours8(e, off) ==
  ((e + off) - ((e + off) % DayMs)) + MorningHour * OneHour - off

-----------------------------------------------------------------------------
(* The persisted store and the inputs of the model. *)

(* Store keys: identities with "." replaced by "_" (lines 232, 415). *)
IdA == <<"a", "_", "b">>
IdB == <<"c">>
(* The order in which for-in visits the keys of the reminders snapshot. *)
Ids == <<IdA, IdB>>
NumIds == Len(Ids)
Rids == <<1, 2>>
NumRids == Len(Rids)
Kinds == <<"morning", "oneHour", "exact">>
NumKinds == Len(Kinds)
LastPos == NumRids * NumKinds

NoReminder ==
  [exists |-> FALSE, malformed |-> FALSE, timeISO |-> [form |-> "Z", t |-> 0],
   morning |-> FALSE, oneHour |-> FALSE,
   morningSent |-> FALSE, oneHourSent |-> FALSE, exactSent |-> FALSE]

NewReminder(form, t, morning, oneHour) ==
  [NoReminder EXCEPT !.exists = TRUE, !.timeISO = [form |-> form, t |-> t],
                     !.morning = morning, !.oneHour = oneHour]

(* A reminder entry that is null: reading r.timeISO throws. *)
MalformedReminder == [NoReminder EXCEPT !.exists = TRUE, !.malformed = TRUE]

NoLink == [exists |-> FALSE, lineUserId |-> "none", linkedAt |-> 0]

(* Event instants: 09:00 and 03:00 Tokyo civil time of civil day 2. *)
EventNine == 2 * DayMs
EventThree == 2 * DayMs - 6 * OneHour

(* The instants at which something may happen: the clock starts one second *)
(* before 08:00 Tokyo time of day 2 (a quarter second into that second) and *)
(* steps through the trigger thresholds of EventNine.                       *)
EvalStart == EventNine - OneHour - OneSecond + 250
EvalPlan ==
  <<OneSecond, OneHour - OneSecond, OneSecond, TenMinutes - OneSecond, OneSecond>>
DelayAt(delays, n) == IF n <= Len(delays) THEN delays[n] ELSE 60 * OneSecond

-----------------------------------------------------------------------------
(* The reminder evaluator: the cron.schedule callback. *)

Slot(i, pos) == <<i, ((pos - 1) \div NumKinds) + 1, ((pos - 1) % NumKinds) + 1>>
Slots == {Slot(i, pos) : i \in 1..NumIds, pos \in 1..LastPos}
ReminderAt(table, s) == table[Ids[s[1]]][Rids[s[2]]]

(* The three conditions of lines 172-175, 182-184 and 191 (498-501, 507-509 *)
(* and 515), on the reminder r of the snapshot.                             *)
MorningDue(r, now, off) ==
  r.morning /\ ~r.morningSent /\ now >= SetHours8(ParseTimeISO(r.timeISO, off), off)

(* A one-hour condition with the catch-up window of the exact trigger. *)
OneHourDueBounded(r, now, off) ==
  /\ r.oneHour /\ ~r.oneHourSent
  /\ now >= ParseTimeISO(r.timeISO, off) - OneHour
  /\ now - ParseTimeISO(r.timeISO, off) < TenMinutes

OneHourDue(r, now, off) ==
  r.oneHour /\ ~r.oneHourSent /\ now >= ParseTimeISO(r.timeISO, off) - OneHour

ExactDue(r, now, off) ==
  LET diff == now - ParseTimeISO(r.timeISO, off)
  IN  ~r.exactSent /\ diff >= 0 /\ diff < TenMinutes

Due(r, k, now, off) ==
  CASE k = 1 -> MorningDue(r, now, off)
    [] k = 2 -> OneHourDue(r, now, off)
    [] OTHER -> ExactDue(r, now, off)

(* The walk of the two inner loops over one identity's reminders, from     *)
(* position pos, up to the next await: the position of the next due         *)
(* trigger, 0 at the end of the identity's reminders, -1 when a reminder    *)
(* entry is null and reading it throws.                                     *)
RECURSIVE Scan(_, _, _, _)
Scan(rs, now, off, pos) ==
  IF pos > LastPos THEN 0
  ELSE LET ri == ((pos - 1) \div NumKinds) + 1
           k == ((pos - 1) % NumKinds) + 1
           r == rs[Rids[ri]]
       IN  IF ~r.exists THEN Scan(rs, now, off, ri * NumKinds + 1)
           ELSE IF r.malformed THEN -1
           ELSE IF Due(r, k, now, off) THEN pos
           ELSE Scan(rs, now, off, pos + 1)

HasReminders(table, i) == \E ri \in 1..NumRids : table[Ids[i]][Rids[ri]].exists

(* The next key of the snapshot after identity i, 0 when there is none. *)
NextId(table, i) ==
  LET later == {j \in (i + 1)..NumIds : HasReminders(table, j)}
  IN  IF later = {} THEN 0 ELSE CHOOSE j \in later : \A m \in later : j <= m

NoTable == [id \in {IdA, IdB} |-> [rid \in {1, 2} |-> NoReminder]]

IdleTick ==
  [pc |-> "idle", t0 |-> 0, now |-> 0, snap |-> NoTable, id |-> 0, pos |-> 0,
   user |-> "none", fired |-> {}, errs |-> {}]

NoTickYet ==
  [t0 |-> 0, now |-> 0, snap |-> NoTable, fired |-> {}, errs |-> {},
   ending |-> "none"]

Bump(count, s) == [count EXCEPT ![s] = IF @ < PushCap THEN @ + 1 ELSE @]

(* The callback returns or its promise rejects: the tick is over. *)
Finish(t, rec, ending) ==
  /\ tick' = [tick EXCEPT ![t] = IdleTick]
  /\ lastTick' = [t0 |-> rec.t0, now |-> rec.now,
                  snap |-> rec.snap, fired |-> rec.fired, errs |-> rec.errs,
                  ending |-> ending]

(* The outer loop moves to the next identity and awaits its link record    *)
(* (lines 158-161, 486-488).                                                *)
GoNextIdentity(t, rec) ==
  LET j == NextId(rec.snap, rec.id)
  IN  IF j = 0 THEN Finish(t, rec, "done")
      ELSE /\ tick' = [tick EXCEPT ![t] =
                         [rec EXCEPT !.pc = "link", !.id = j, !.pos = 0, !.user = "none"]]
           /\ UNCHANGED lastTick

(* An error raised while identity rec.id is processed: variant 1 catches it *)
(* per identity (lines 159, 196-198); variant 2 has no try, so the callback *)
(* rejects (lines 486-520).                                                 *)
Raise(t, rec) ==
  LET r2 == [rec EXCEPT !.errs = @ \cup {rec.id}]
  IN  IF variant = 1 THEN GoNextIdentity(t, r2) ELSE Finish(t, r2, "aborted")

(* Run the inner loops from position pos to the next await. *)
Proceed(t, rec, pos) ==
  LET p == Scan(rec.snap[Ids[rec.id]], rec.now, hostOffset, pos)
  IN  IF p > 0
      THEN /\ tick' = [tick EXCEPT ![t] =
                         [rec EXCEPT !.pc = "push", !.pos = p,
                                     !.fired = @ \cup {Slot(rec.id, p)}]]
           /\ pushed' = Bump(pushed, Slot(rec.id, p))
           /\ UNCHANGED lastTick
      ELSE /\ pushed' = pushed
           /\ IF p = 0 THEN GoNextIdentity(t, rec) ELSE Raise(t, rec)

(* The Link Registry: const pendingLinks = new Map() (lines 92, 304). *)
Codes == {"100000", "999999"}
NoPending == [exists |-> FALSE, email |-> <<>>, expires |-> 0]

(* A cleanup that also takes the entries whose expiry is the present       *)
(* instant.                                                                 *)
SweepAtExpiry(pending, t) ==
  [c \in Codes |-> IF pending[c].exists /\ t >= pending[c].expires
                    THEN NoPending ELSE pending[c]]

(* The cleanup loop of lines 148-150 (473-475) at Date.now() = t. *)
SweepExpired(pending, t) ==
  [c \in Codes |-> IF pending[c].exists /\ t > pending[c].expires
                    THEN NoPending ELSE pending[c]]

(* Time passes before an arrival (a scheduler firing, a request): the clock *)
(* moves d instants along the plan.                                         *)
RECURSIVE After(_, _, _, _)
After(delays, t, n, d) ==
  IF d = 0 THEN t ELSE After(delays, t + DelayAt(delays, n + 1), n + 1, d - 1)

Pass(d) ==
  /\ advances + d <= MaxAdvance
  /\ advances' = advances + d
  /\ clock' = After(plan, clock, advances, d)

NoReplies == [ok |-> 0, bad |-> 0]

TickIds == {1, 2}
Busy(t) == tick[t].pc # "idle"

envVars == <<variant, hostOffset, lineToken, lineSecret, plan>>
hookVars == <<hook, replies, linkWrites>>

(* The scheduler fires: the callback runs to its first await, the read of  *)
(* the reminders table (lines 144-153, 469-481).  node-cron does not wait   *)
(* for the previous callback's promise, so a second callback may start      *)
(* while the first is suspended.                                            *)
StartTick(t, d) ==
  /\ ~Busy(t)
  /\ ticksStarted = 0 \/ d > 0
  /\ Pass(d)
  /\ \A u \in TickIds : u < t => Busy(u)
  /\ ticksStarted < MaxTicks
  /\ ticksStarted' = ticksStarted + 1
  /\ pendingLinks' = SweepExpired(pendingLinks, clock')
  /\ tick' = [tick EXCEPT ![t] =
                [IdleTick EXCEPT !.pc = "snapshot", !.t0 = clock',
                                 !.now = NowOf(clock', hostOffset)]]
  /\ overlapped' = (overlapped \/ \E u \in TickIds \ {t} : Busy(u))
  /\ UNCHANGED <<envVars, hookVars, reminders, links, failures,
                 pushed, delivered, lastTick>>

(* await db.ref("reminders").get() settles (lines 153-156, 481-484). *)
SnapshotDone(t, ok) ==
  /\ tick[t].pc = "snapshot"
  /\ ok \/ failures < MaxFailures
  /\ failures' = IF ok THEN failures ELSE failures + 1
  /\ LET rec == [tick[t] EXCEPT !.snap = reminders]
     IN  IF ok THEN GoNextIdentity(t, rec) ELSE Finish(t, tick[t], "aborted")
  /\ UNCHANGED <<envVars, hookVars, clock, advances, reminders, links, ticksStarted,
                 pushed, delivered, overlapped, pendingLinks>>

(* A callback without the linkSnap.exists() test. *)
LinkDoneUnchecked(t, ok) ==
  /\ tick[t].pc = "link"
  /\ ok \/ failures < MaxFailures
  /\ failures' = IF ok THEN failures ELSE failures + 1
  /\ LET l == links[Ids[tick[t].id]]
     IN  IF ~ok THEN pushed' = pushed /\ Raise(t, tick[t])
         ELSE Proceed(t, [tick[t] EXCEPT !.user = l.lineUserId], 1)
  /\ UNCHANGED <<envVars, hookVars, clock, advances, reminders, links, ticksStarted,
                 delivered, overlapped, pendingLinks>>

(* await db.ref(`line_links/${safeEmail}`).get() settles (lines 161-164,   *)
(* 488-491), and the inner loops run to the first due trigger.              *)
LinkDone(t, ok) ==
  /\ tick[t].pc = "link"
  /\ ok \/ failures < MaxFailures
  /\ failures' = IF ok THEN failures ELSE failures + 1
  /\ LET l == links[Ids[tick[t].id]]
     IN  IF ~ok THEN pushed' = pushed /\ Raise(t, tick[t])
         ELSE IF ~l.exists THEN pushed' = pushed /\ GoNextIdentity(t, tick[t])
         ELSE Proceed(t, [tick[t] EXCEPT !.user = l.lineUserId], 1)
  /\ UNCHANGED <<envVars, hookVars, clock, advances, reminders, links, ticksStarted,
                 delivered, overlapped, pendingLinks>>

(* await sendLine(...) settles: sendLine never throws (lines 107-122); in   *)
(* variant 2 it returns at once when LINE_TOKEN is unset (line 330).  Then  *)
(* the flag write is issued (lines 177, 186, 193; 503, 511, 517).           *)
CanDeliver == lineToken
(* A callback that writes the flag only after a delivered push: after a    *)
(* failed or skipped one it goes on to the next trigger.                    *)
PushDoneRetrying(t, ok) ==
  /\ tick[t].pc = "push"
  /\ ok => CanDeliver
  /\ (~ok /\ CanDeliver) => failures < MaxFailures
  /\ failures' = IF ~ok /\ CanDeliver THEN failures + 1 ELSE failures
  /\ delivered' = IF ok THEN Bump(delivered, Slot(tick[t].id, tick[t].pos))
                  ELSE delivered
  /\ IF ok THEN tick' = [tick EXCEPT ![t].pc = "set"] /\ UNCHANGED <<lastTick, pushed>>
     ELSE Proceed(t, tick[t], tick[t].pos + 1)
  /\ UNCHANGED <<envVars, hookVars, clock, advances, reminders, links, ticksStarted,
                 overlapped, pendingLinks>>

(* A sendLine without its try/catch: a failed push is an error of the     *)
(* identity being processed.                                                *)
PushDoneThrowing(t, ok) ==
  /\ tick[t].pc = "push"
  /\ ok => CanDeliver
  /\ (~ok /\ CanDeliver) => failures < MaxFailures
  /\ failures' = IF ~ok /\ CanDeliver THEN failures + 1 ELSE failures
  /\ delivered' = IF ok THEN Bump(delivered, Slot(tick[t].id, tick[t].pos))
                  ELSE delivered
  /\ IF ok THEN tick' = [tick EXCEPT ![t].pc = "set"] /\ UNCHANGED lastTick
     ELSE Raise(t, tick[t])
  /\ UNCHANGED <<envVars, hookVars, clock, advances, reminders, links, ticksStarted,
                 pushed, overlapped, pendingLinks>>

PushDone(t, ok) ==
  /\ tick[t].pc = "push"
  /\ ok => CanDeliver
  /\ (~ok /\ CanDeliver) => failures < MaxFailures
  /\ failures' = IF ~ok /\ CanDeliver THEN failures + 1 ELSE failures
  /\ delivered' = IF ok THEN Bump(delivered, Slot(tick[t].id, tick[t].pos))
                  ELSE delivered
  /\ tick' = [tick EXCEPT ![t].pc = "set"]
  /\ UNCHANGED <<envVars, hookVars, clock, advances, reminders, links, ticksStarted,
                 pushed, overlapped, lastTick, pendingLinks>>

(* A write that stores a fresh set of flags with only this one raised. *)
SetSentAlone(table, s) ==
  [table EXCEPT ![Ids[s[1]]][Rids[s[2]]] =
     [@ EXCEPT !.morningSent = (s[3] = 1), !.oneHourSent = (s[3] = 2),
               !.exactSent = (s[3] = 3)]]

SetSent(table, s) ==
  [table EXCEPT ![Ids[s[1]]][Rids[s[2]]] =
     IF s[3] = 1 THEN [@ EXCEPT !.morningSent = TRUE]
     ELSE IF s[3] = 2 THEN [@ EXCEPT !.oneHourSent = TRUE]
     ELSE [@ EXCEPT !.exactSent = TRUE]]

(* await db.ref(`reminders/.../<kind>Sent`).set(true) settles, and the     *)
(* loops run on to the next due trigger.                                    *)
SetDone(t, ok) ==
  /\ tick[t].pc = "set"
  /\ ok \/ failures < MaxFailures
  /\ failures' = IF ok THEN failures ELSE failures + 1
  /\ reminders' = IF ok THEN SetSent(reminders, Slot(tick[t].id, tick[t].pos))
                  ELSE reminders
  /\ IF ok THEN Proceed(t, tick[t], tick[t].pos + 1)
     ELSE pushed' = pushed /\ Raise(t, tick[t])
  /\ UNCHANGED <<envVars, hookVars, clock, advances, links, ticksStarted,
                 delivered, overlapped, pendingLinks>>

-----------------------------------------------------------------------------
(* The linking flow: POST /api/request-line-token and POST /line/webhook. *)

(* Emails are sequences of characters; "." becomes "_" (lines 232, 415). *)
EmailAB == <<"a", ".", "b">>
EmailC == <<"c">>
SafeEmail(email) ==
  [i \in 1..Len(email) |-> IF email[i] = "." THEN "_" ELSE email[i]]

(* Message texts are sequences of characters; a code is one token. *)
UpperChar(ch) ==
  CASE ch = "l" -> "L" [] ch = "i" -> "I" [] ch = "n" -> "N" [] ch = "k" -> "K"
    [] ch = "h" -> "H" [] OTHER -> ch
ToUpperCase(txt) == [i \in 1..Len(txt) |-> UpperChar(txt[i])]

RECURSIVE TrimStart(_)
TrimStart(txt) ==
  IF txt # <<>> /\ Head(txt) = " " THEN TrimStart(Tail(txt)) ELSE txt
RECURSIVE TrimEnd(_)
TrimEnd(txt) ==
  IF txt # <<>> /\ txt[Len(txt)] = " " THEN TrimEnd(SubSeq(txt, 1, Len(txt) - 1))
  ELSE txt
Trim(txt) == TrimEnd(TrimStart(txt))

LinkPrefix == <<"L", "I", "N", "K", " ">>

(* A prefix test that takes the word and not the space after it. *)
StartsWithWord(txt, pre) ==
  Len(txt) >= Len(pre) - 1 /\ SubSeq(txt, 1, Len(pre) - 1) = SubSeq(pre, 1, Len(pre) - 1)

StartsWith(txt, pre) ==
  Len(txt) >= Len(pre) /\ SubSeq(txt, 1, Len(pre)) = pre

(* text.replace(/LINK /i, ""): the first match, wherever it is, removed. *)
ReplaceLink(txt) ==
  LET n == Len(LinkPrefix)
      at == {i \in 1..(Len(txt) - n + 1) :
               ToUpperCase(SubSeq(txt, i, i + n - 1)) = LinkPrefix}
  IN  IF at = {} THEN txt
      ELSE LET i == CHOOSE j \in at : \A m \in at : j <= m
           IN  SubSeq(txt, 1, i - 1) \o SubSeq(txt, i + n, Len(txt))

(* pendingLinks.get(code) *)
GetPending(pending, code) ==
  IF Len(code) = 1 /\ code[1] \in Codes THEN pending[code[1]] ELSE NoPending

(* crypto.createHmac("sha256", key).update(body).digest("base64") *)
Hmac(key, body) == [key |-> key, body |-> body]
NoEvent == [kind |-> "none", text |-> <<>>, user |-> "none"]
NoSignature == [key |-> "absent", body |-> NoEvent]

(* if (!LINE_SECRET): unset or the empty string. *)
SecretMissing == lineSecret \in {"absent", ""}

(* verifySignature (lines 135-139, 369-377): "throw" when createHmac is    *)
(* given an undefined key.                                                  *)
VerifySignature(req) ==
  IF variant = 2 /\ SecretMissing THEN "false"
  ELSE IF lineSecret = "absent" THEN "throw"
  ELSE IF Hmac(lineSecret, req.body) = req.sig THEN "true" ELSE "false"

(* The check with the instant of expiry itself admitted. *)
RedeemableAtExpiry(record, t) == record.exists /\ t <= record.expires

(* record && Date.now() < record.expires (lines 231, 414) *)
Redeemable(record, t) == record.exists /\ t < record.expires

(* reply() issues a fetch unless variant 2 finds LINE_TOKEN unset (354). *)
ReplyFetches == variant = 1 \/ lineToken

(* A handler: where it is suspended and what it holds (code, record, user); *)
(* live records whether, when the message arrived, the registry held an     *)
(* entry for the code whose expiry lay in the future; boundAs the key of    *)
(* the link record it wrote; left whether an entry was in the registry      *)
(* under the code when the handler let go of it.                            *)
NoHook ==
  [pc |-> "idle", verified |-> FALSE, code |-> <<>>, record |-> NoPending,
   user |-> "none", live |-> FALSE, outcome |-> "none", boundAs |-> <<>>,
   left |-> FALSE, status |-> 0]

(* The handler is over: its locals are gone. *)
Ended(rec, status) ==
  [rec EXCEPT !.pc = "done", !.status = status, !.record = NoPending, !.user = "none"]
HookIds == 1..MaxHooks
InFlight(h) == hook[h].pc \in {"set", "replyOk", "replyBad"}

(* An issuance that leaves an entry already under the code as it is. *)
RequestTokenKeepFirst(email, code, d) ==
  /\ Pass(d)
  /\ IF email = <<>> \/ pendingLinks[code].exists
     THEN UNCHANGED <<pendingLinks, linkWrites, replies>>
     ELSE /\ pendingLinks' = [pendingLinks EXCEPT ![code] =
                                [exists |-> TRUE, email |-> email,
                                 expires |-> clock' + FiveMinutes]]
          /\ linkWrites' = [linkWrites EXCEPT ![code] = 0]
          /\ replies' = [replies EXCEPT ![code] = NoReplies]
  /\ UNCHANGED <<envVars, hook, reminders, links, tick, ticksStarted, failures,
                 pushed, delivered, overlapped, lastTick>>

(* POST /api/request-line-token (lines 206-212, 382-393). *)
RequestToken(email, code, d) ==
  /\ Pass(d)
  /\ IF email = <<>> THEN UNCHANGED <<pendingLinks, linkWrites, replies>>
     ELSE /\ pendingLinks' = [pendingLinks EXCEPT ![code] =
                                [exists |-> TRUE, email |-> email,
                                 expires |-> clock' + FiveMinutes]]
          /\ linkWrites' = [linkWrites EXCEPT ![code] = 0]
          /\ replies' = [replies EXCEPT ![code] = NoReplies]
  /\ UNCHANGED <<envVars, hook, reminders, links, tick, ticksStarted, failures,
                 pushed, delivered, overlapped, lastTick>>

CountReply(code, kind) ==
  IF ReplyFetches /\ Len(code) = 1 /\ code[1] \in Codes
  THEN [replies EXCEPT ![code[1]] =
          IF kind = "ok" THEN [@ EXCEPT !.ok = @ + 1] ELSE [@ EXCEPT !.bad = @ + 1]]
  ELSE replies

(* POST /line/webhook up to its first await (lines 215-233, 395-419). *)
Webhook(h, req, d) ==
  /\ hook[h].pc = "idle"
  /\ \A g \in HookIds : g < h => hook[g].pc # "idle"
  /\ Pass(d)
  /\ LET v == VerifySignature(req)
         ev == req.body
         text == Trim(ev.text)
         code == Trim(ReplaceLink(text))
         record == GetPending(pendingLinks, code)
         base == [NoHook EXCEPT !.verified = (v = "true")]
         live == record.exists /\ record.expires - clock' > 0
     IN  IF v = "throw"
         THEN hook' = [hook EXCEPT ![h] = [Ended(base, 0) EXCEPT !.outcome = "verifyThrew"]]
              /\ replies' = replies
         ELSE IF v = "false"
         THEN hook' = [hook EXCEPT ![h] = [Ended(base, 401) EXCEPT !.outcome = "unverified"]]
              /\ replies' = replies
         ELSE IF ev.kind # "text" \/ ~StartsWith(ToUpperCase(text), LinkPrefix)
         THEN hook' = [hook EXCEPT ![h] = [Ended(base, 200) EXCEPT !.outcome = "ignored"]]
              /\ replies' = replies
         ELSE IF Redeemable(record, clock')
         THEN hook' = [hook EXCEPT ![h] =
                         [base EXCEPT !.pc = "set", !.code = code, !.record = record,
                                      !.user = ev.user, !.live = live]]
              /\ replies' = replies
         ELSE hook' = [hook EXCEPT ![h] =
                         [base EXCEPT !.pc = "replyBad", !.code = code, !.live = live,
                                      !.outcome = "invalid", !.left = record.exists]]
              /\ replies' = CountReply(code, "bad")
  /\ UNCHANGED <<envVars, pendingLinks, linkWrites, reminders, links, tick,
                 ticksStarted, failures, pushed, delivered, overlapped, lastTick>>

(* await db.ref(`line_links/${safeEmail}`).set(...) settles; then the entry *)
(* is deleted and the success reply is issued (lines 233-235, 416-424).  A  *)
(* rejected write throws out of the handler: no reply and no response.      *)
HookSetDone(h, ok) ==
  /\ hook[h].pc = "set"
  /\ ok \/ failures < MaxFailures
  /\ failures' = IF ok THEN failures ELSE failures + 1
  /\ LET c == hook[h].code[1]
     IN  IF ok
         THEN /\ links' = [links EXCEPT ![SafeEmail(hook[h].record.email)] =
                             [exists |-> TRUE, lineUserId |-> hook[h].user,
                              linkedAt |-> clock]]
              /\ linkWrites' = [linkWrites EXCEPT ![c] = @ + 1]
              /\ pendingLinks' = [pendingLinks EXCEPT ![c] = NoPending]
              /\ replies' = CountReply(hook[h].code, "ok")
              /\ hook' = [hook EXCEPT ![h].pc = "replyOk", ![h].outcome = "bound",
                                       ![h].boundAs = SafeEmail(hook[h].record.email),
                                       ![h].left = FALSE]
         ELSE /\ UNCHANGED <<links, linkWrites, pendingLinks, replies>>
              /\ hook' = [hook EXCEPT ![h] =
                            [Ended(hook[h], 0) EXCEPT !.outcome = "writeFailed",
                                                      !.left = pendingLinks[c].exists]]
  /\ UNCHANGED <<envVars, clock, advances, reminders, tick, ticksStarted,
                 pushed, delivered, overlapped, lastTick>>

(* Time passes to the next instant of the plan, nothing else happening. *)
TimePasses ==
  /\ Pass(1)
  /\ UNCHANGED <<envVars, hookVars, pendingLinks, reminders, links, tick, ticksStarted,
                 failures, pushed, delivered, overlapped, lastTick>>

(* await reply(...) settles (lines 124-133, 353-367): a rejected fetch      *)
(* throws out of the handler; otherwise res.sendStatus(200).                *)
HookReplyDone(h, ok) ==
  /\ hook[h].pc \in {"replyOk", "replyBad"}
  /\ ok \/ (ReplyFetches /\ failures < MaxFailures)
  /\ failures' = IF ok THEN failures ELSE failures + 1
  /\ hook' = [hook EXCEPT ![h] = Ended(hook[h], IF ok THEN 200 ELSE 0)]
  /\ UNCHANGED <<envVars, pendingLinks, replies, linkWrites, clock, advances,
                 reminders, links, tick, ticksStarted, pushed, delivered, overlapped,
                 lastTick>>

-----------------------------------------------------------------------------
(* The evaluator's specification. *)

InputReminders ==
  {NewReminder("Z", EventNine, TRUE, TRUE),
   NewReminder("Z", EventThree, TRUE, FALSE),
   NewReminder("local", EventNine + TokyoOffset, TRUE, TRUE),
   MalformedReminder}

LinkTo(user) == [exists |-> TRUE, lineUserId |-> user, linkedAt |-> 1]

(* The stores the evaluator starts from: identity A's reminder varies, B   *)
(* has one reminder with every trigger enabled and optionally a second.     *)
Scenarios ==
  {[a |-> a, b2 |-> NoReminder, la |-> LinkTo("U1")] : a \in InputReminders}
  \cup {[a |-> NewReminder("Z", EventNine, TRUE, TRUE),
         b2 |-> NewReminder("Z", EventNine, FALSE, TRUE), la |-> LinkTo("U1")],
        [a |-> NewReminder("Z", EventNine, TRUE, TRUE),
         b2 |-> NoReminder, la |-> NoLink]}


Init ==
  /\ variant \in {1, 2}
  /\ hostOffset \in {0, TokyoOffset}
  /\ lineToken \in BOOLEAN
  /\ lineSecret = "set"
  /\ clock = EvalStart
  /\ advances = 0
  /\ plan = EvalPlan
  /\ \E sc \in Scenarios :
       /\ reminders = [NoTable EXCEPT
                         ![IdA][1] = sc.a,
                         ![IdB][1] = NewReminder("Z", EventNine, TRUE, TRUE),
                         ![IdB][2] = sc.b2]
       /\ links = [id \in {IdA, IdB} |-> IF id = IdA THEN sc.la ELSE LinkTo("U2")]
  /\ tick = [t \in TickIds |-> IdleTick]
  /\ ticksStarted = 0
  /\ failures = 0
  /\ pushed = [s \in Slots |-> 0]
  /\ delivered = [s \in Slots |-> 0]
  /\ overlapped = FALSE
  /\ lastTick = NoTickYet
  /\ pendingLinks = [c \in Codes |-> NoPending]
  /\ hook = [h \in HookIds |-> NoHook]
  /\ replies = [c \in Codes |-> NoReplies]
  /\ linkWrites = [c \in Codes |-> 0]

(* The scheduler fires while no callback is suspended: each tick ends       *)
(* within the minute.                                                       *)
StartTickAlone(d) ==
  /\ \A u \in TickIds : ~Busy(u)
  /\ StartTick(1, d)

Next ==
  \/ \E d \in 0..MaxAdvance : StartTickAlone(d)
  \/ \E t \in TickIds, ok \in BOOLEAN : SnapshotDone(t, ok)
  \/ \E t \in TickIds, ok \in BOOLEAN : LinkDone(t, ok)
  \/ \E t \in TickIds, ok \in BOOLEAN : PushDone(t, ok)
  \/ \E t \in TickIds, ok \in BOOLEAN : SetDone(t, ok)

Spec == Init /\ [][Next]_vars

-----------------------------------------------------------------------------
(* What the claims speak of. *)

SentFlag(table, s) ==
  LET r == ReminderAt(table, s)
  IN  CASE s[3] = 1 -> r.morningSent [] s[3] = 2 -> r.oneHourSent [] OTHER -> r.exactSent

Linked(s) == links[Ids[s[1]]].exists

(* Trigger s was due and unsent in the snapshot of finished tick tk, by the *)
(* evaluator's own conditions.                                              *)
DueIn(tk, s) ==
  LET r == ReminderAt(tk.snap, s)
  IN  r.exists /\ ~r.malformed /\ Due(r, s[3], tk.now, hostOffset)

(* C1: non-overlapping ticks push the notification of a due trigger exactly *)
(* once: no trigger is ever pushed twice, and the tick that finds a trigger *)
(* of a linked identity due pushes it and sets its flag.                    *)
C1_PushedExactlyOnce ==
  /\ \A s \in Slots : pushed[s] <= 1
  /\ lastTick.ending # "none" =>
       \A s \in Slots : (Linked(s) /\ DueIn(lastTick, s)) =>
                          (s \in lastTick.fired /\ SentFlag(reminders, s))

(* The last tick is over and no other is under way; it ran without a       *)
(* failing operation or malformed record.                                   *)
TickOver == lastTick.ending # "none" /\ \A t \in TickIds : ~Busy(t)

CleanTick == TickOver /\ lastTick.ending = "done" /\ lastTick.errs = {}

(* Civil time of the reminder timezone at instant t, and the civil time a   *)
(* reminder's timeISO denotes there.                                        *)
CivilTokyo(t) == t + TokyoOffset

EventCivil(iso) == IF iso.form = "Z" THEN iso.t + TokyoOffset ELSE iso.t

(* The three thresholds compared in the reminder timezone's civil time.     *)
ReachedFixed(r, k, t) ==
  LET e == EventCivil(r.timeISO)
      n == CivilTokyo(t)
  IN  CASE k = 1 -> n >= (e - (e % DayMs)) + MorningHour * OneHour
        [] k = 2 -> n >= e - OneHour
        [] OTHER -> n - e >= 0 /\ n - e < TenMinutes

EnabledUnsent(r, k) ==
  CASE k = 1 -> r.morning /\ ~r.morningSent
    [] k = 2 -> r.oneHour /\ ~r.oneHourSent
    [] OTHER -> ~r.exactSent

WellFormed(tk, s) ==
  ReminderAt(tk.snap, s).exists /\ ~ReminderAt(tk.snap, s).malformed

FiredAndFlagged(s) == s \in lastTick.fired /\ SentFlag(reminders, s)

(* C5: in a tick, for a reminder of a linked identity with exactSent false *)
(* in the snapshot, the exact notification is pushed and the flag set iff   *)
(* 0 <= now - eventTime < 10 minutes.                                       *)
C5_ExactIffWithinWindow ==
  CleanTick =>
    \A s \in Slots :
      (s[3] = 3 /\ Linked(s) /\ WellFormed(lastTick, s)
         /\ EnabledUnsent(ReminderAt(lastTick.snap, s), 3)) =>
        (FiredAndFlagged(s) <=>
           ReachedFixed(ReminderAt(lastTick.snap, s), 3, lastTick.t0))

(* C6: for a reminder of a linked identity with morning true and            *)
(* morningSent false, a tick before 08:00:00 civil time of the event's      *)
(* civil date neither pushes nor flags; a tick at or after it does both.    *)
C6_MorningAtEight ==
  CleanTick =>
    \A s \in Slots :
      (s[3] = 1 /\ Linked(s) /\ WellFormed(lastTick, s)
         /\ EnabledUnsent(ReminderAt(lastTick.snap, s), 1)) =>
        IF ReachedFixed(ReminderAt(lastTick.snap, s), 1, lastTick.t0)
        THEN FiredAndFlagged(s)
        ELSE s \notin lastTick.fired /\ ~SentFlag(reminders, s)

(* C7: for every host offset the three due-decisions of a tick equal those  *)
(* computed from the tick instant and the event instant in the reminder     *)
(* timezone's civil time.                                                   *)
C7_DecisionsIndependentOfHost ==
  lastTick.ending # "none" =>
    \A s \in Slots :
      WellFormed(lastTick, s) =>
        (Due(ReminderAt(lastTick.snap, s), s[3], lastTick.now, hostOffset)
           <=> (EnabledUnsent(ReminderAt(lastTick.snap, s), s[3])
                  /\ ReachedFixed(ReminderAt(lastTick.snap, s), s[3], lastTick.t0)))

(* C8: when processing one identity raised an error in a tick, every due,   *)
(* unsent trigger of every other linked identity is pushed and flagged in   *)
(* that tick.                                                               *)
C8_ErrorDoesNotStopOthers ==
  (TickOver /\ lastTick.errs # {}) =>
    \A s \in Slots :
      (s[1] \notin lastTick.errs /\ Linked(s) /\ DueIn(lastTick, s)) =>
        FiredAndFlagged(s)

-----------------------------------------------------------------------------
(* Overlapping ticks: the scheduler fires whether or not the previous      *)
(* callback has settled.  One identity, one reminder, Tokyo host.           *)

OverlapInit ==
  /\ variant \in {1, 2}
  /\ hostOffset = TokyoOffset
  /\ lineToken \in BOOLEAN
  /\ lineSecret = "set"
  /\ clock = EvalStart
  /\ advances = 0
  /\ plan = EvalPlan
  /\ \E b \in BOOLEAN :
       reminders = [NoTable EXCEPT ![IdA][1] = NewReminder("Z", EventNine, b, TRUE)]
  /\ links = [id \in {IdA, IdB} |-> IF id = IdA THEN LinkTo("U1") ELSE NoLink]
  /\ tick = [t \in TickIds |-> IdleTick]
  /\ ticksStarted = 0
  /\ failures = 0
  /\ pushed = [s \in Slots |-> 0]
  /\ delivered = [s \in Slots |-> 0]
  /\ overlapped = FALSE
  /\ lastTick = NoTickYet
  /\ pendingLinks = [c \in Codes |-> NoPending]
  /\ hook = [h \in HookIds |-> NoHook]
  /\ replies = [c \in Codes |-> NoReplies]
  /\ linkWrites = [c \in Codes |-> 0]

OverlapNext ==
  \/ \E t \in TickIds, d \in 0..MaxAdvance : StartTick(t, d)
  \/ \E t \in TickIds, ok \in BOOLEAN : SnapshotDone(t, ok)
  \/ \E t \in TickIds, ok \in BOOLEAN : LinkDone(t, ok)
  \/ \E t \in TickIds, ok \in BOOLEAN : PushDone(t, ok)
  \/ \E t \in TickIds, ok \in BOOLEAN : SetDone(t, ok)

SpecOverlap == OverlapInit /\ [][OverlapNext]_vars

(* C2: when ticks overlap, no trigger is pushed more than once, even when   *)
(* no store operation and no push fails.                                    *)
C2_NoDoublePushWhenOverlapping ==
  (overlapped /\ failures = 0) => \A s \in Slots : pushed[s] <= 1

-----------------------------------------------------------------------------
(* The linking flow's specifications. *)

TextInputs ==
  {<<"L", "I", "N", "K", " ", "100000">>,
   <<" ", "l", "i", "n", "k", " ", " ", "100000", " ">>,
   <<"L", "I", "N", "K", "100000">>,
   <<"h", "i">>}

Message(txt, user) == [kind |-> "text", text |-> txt, user |-> user]
LinkMessage(user) == Message(<<"L", "I", "N", "K", " ", "100000">>, user)

EventInputs ==
  {NoEvent, [kind |-> "sticker", text |-> <<>>, user |-> "U1"]}
  \cup {Message(x, "U1") : x \in TextInputs}

Signed(b) == [body |-> b, sig |-> Hmac("s3cret", b)]

(* Requests: each event signed by the platform, and a LINK message with no *)
(* signature, with one made with the empty key, and with the platform's     *)
(* signature of another body.                                               *)
RequestInputs ==
  {Signed(b) : b \in EventInputs}
  \cup {[body |-> LinkMessage("U1"), sig |-> g] :
          g \in {NoSignature, Hmac("", LinkMessage("U1")),
                 Hmac("s3cret", LinkMessage("U2"))}}

LinkStart == DayMs + 250
LinkPlan == <<FiveMinutes - 1, 1, 1>>

LinkStore ==
  /\ variant \in {1, 2}
  /\ hostOffset = TokyoOffset
  /\ lineToken \in BOOLEAN
  /\ clock = LinkStart
  /\ advances = 0
  /\ plan = LinkPlan
  /\ reminders = NoTable
  /\ links = [id \in {IdA, IdB} |-> NoLink]
  /\ tick = [t \in TickIds |-> IdleTick]
  /\ ticksStarted = 0
  /\ failures = 0
  /\ pushed = [s \in Slots |-> 0]
  /\ delivered = [s \in Slots |-> 0]
  /\ overlapped = FALSE
  /\ lastTick = NoTickYet
  /\ pendingLinks = [c \in Codes |-> NoPending]
  /\ hook = [h \in HookIds |-> NoHook]
  /\ replies = [c \in Codes |-> NoReplies]
  /\ linkWrites = [c \in Codes |-> 0]

(* No handler and no tick is suspended at an await. *)
Quiet == (\A h \in HookIds : ~InFlight(h)) /\ (\A t \in TickIds : ~Busy(t))

(* Requests and ticks handled one after the other. *)
LinkNext ==
  \/ Quiet /\ advances < MaxLinkAdvance /\ TimePasses
  \/ Quiet /\ \E email \in {EmailAB, <<>>} : RequestToken(email, "100000", 0)
  \/ Quiet /\ \E h \in HookIds, req \in RequestInputs : Webhook(h, req, 0)
  \/ \E h \in HookIds, ok \in BOOLEAN : HookSetDone(h, ok)
  \/ \E h \in HookIds, ok \in BOOLEAN : HookReplyDone(h, ok)
  \/ Quiet /\ ticksStarted < MaxSweeps /\ StartTickAlone(0)
  \/ \E ok \in BOOLEAN : SnapshotDone(1, ok)

(* LINE_CHANNEL_SECRET is configured. *)
LinkInit == lineSecret = "s3cret" /\ LinkStore
SpecLink == LinkInit /\ [][LinkNext]_vars

(* LINE_CHANNEL_SECRET is unset, or set to the empty string. *)
NoSecretInit == lineSecret \in {"absent", ""} /\ LinkStore
SpecNoSecret == NoSecretInit /\ [][LinkNext]_vars

(* Handlers of concurrent requests interleave at their awaits. *)
RaceNext ==
  \/ advances < MaxLinkAdvance /\ TimePasses
  \/ RequestToken(EmailAB, "100000", 0)
  \/ \E h \in HookIds, u \in {"U1", "U2"} : Webhook(h, Signed(LinkMessage(u)), 0)
  \/ \E h \in HookIds, ok \in BOOLEAN : HookSetDone(h, ok)
  \/ \E h \in HookIds, ok \in BOOLEAN : HookReplyDone(h, ok)

SpecLinkRace == LinkInit /\ [][RaceNext]_vars

Redemptions == {h \in HookIds : hook[h].outcome \in {"bound", "invalid", "writeFailed"}}

C4_OneRedemptionPerCode ==
  failures = 0 => \A c \in Codes : linkWrites[c] <= 1 /\ replies[c].ok <= 1

(* C9: without a signing secret every request is answered 401 and nothing  *)
(* is replied, bound or removed.                                            *)
C9_FailsClosedWithoutSecret ==
  SecretMissing =>
    /\ \A h \in HookIds :
         hook[h].pc # "idle" =>
           (hook[h].pc = "done" /\ hook[h].status = 401 /\ hook[h].outcome = "unverified")
    /\ \A c \in Codes : replies[c] = NoReplies /\ linkWrites[c] = 0
    /\ \A id \in {IdA, IdB} : ~links[id].exists

(* C10: a handler that has verified its request and is over has answered   *)
(* 200.                                                                     *)
C10_VerifiedAnswered200 ==
  \A h \in HookIds : (hook[h].pc = "done" /\ hook[h].verified) => hook[h].status = 200

-----------------------------------------------------------------------------
(* Events that are not link messages. *)

(* The request carries the platform's signature of its body. *)
Authentic(req) == req.sig = Hmac(lineSecret, req.body)

(* The text begins with the letters L, I, N, K in either case and a space.  *)
BeginsWithLink(txt) ==
  /\ Len(txt) >= 5
  /\ txt[1] \in {"L", "l"} /\ txt[2] \in {"I", "i"}
  /\ txt[3] \in {"N", "n"} /\ txt[4] \in {"K", "k"}
  /\ txt[5] = " "

(* A request arrives and handler h starts on it. *)
Arrives(h) == hook[h].pc = "idle" /\ hook'[h].pc # "idle"

(* Handler h answers 200 at once and touches nothing. *)
Discards(h) ==
  /\ hook'[h].pc = "done" /\ hook'[h].status = 200
  /\ UNCHANGED <<replies, pendingLinks, links, linkWrites, reminders>>

(* Inbound requests handled one after the other while the clock stands. *)
InboundNext ==
  \/ Quiet /\ RequestToken(EmailAB, "100000", 0)
  \/ Quiet /\ \E h \in HookIds, req \in RequestInputs : Webhook(h, req, 0)
  \/ \E h \in HookIds, ok \in BOOLEAN : HookSetDone(h, ok)
  \/ \E h \in HookIds, ok \in BOOLEAN : HookReplyDone(h, ok)

SpecInbound == LinkInit /\ [][InboundNext]_vars

(* C11: a verified event that is not a plain text message, and a text      *)
(* message that does not start with LINK and a space in either case, is     *)
(* answered 200 with no reply, no registry mutation and no store write.     *)
C11_OtherEventsDiscarded ==
  [][\A h \in HookIds, req \in RequestInputs :
       (/\ Arrives(h)
        /\ Authentic(req)
        /\ req.body.kind # "text" \/ ~BeginsWithLink(req.body.text)
        /\ Webhook(h, req, 0))
         => Discards(h)]_vars

(* C11 with the text taken as the handler takes it, surrounding whitespace  *)
(* removed: a verified event that is not a plain text message, and a text   *)
(* message that after trimming does not start with LINK and a space, is     *)
(* answered 200 with no reply, no registry mutation and no store write.     *)
C11_OtherEventsDiscardedAfterTrim ==
  [][\A h \in HookIds, req \in RequestInputs :
       (/\ Arrives(h)
        /\ Authentic(req)
        /\ req.body.kind # "text" \/ ~BeginsWithLink(TrimEnd(TrimStart(req.body.text)))
        /\ Webhook(h, req, 0))
         => Discards(h)]_vars

(* Two verified requests were discarded with 200 and nothing was replied,   *)
(* registered or written.                                                   *)
C11_Witness ==
  /\ \A h \in HookIds :
       hook[h].pc = "done" /\ hook[h].verified /\ hook[h].outcome = "ignored"
         /\ hook[h].status = 200
  /\ \A c \in Codes : replies[c] = NoReplies /\ linkWrites[c] = 0
  /\ pendingLinks["100000"].exists

-----------------------------------------------------------------------------
(* The whole core: ticks, issuance and webhook handlers running against the *)
(* same store.  Identity a_b has a reminder and is not linked until a.b's   *)
(* code is redeemed.  The scheduler fires at consecutive instants of the    *)
(* plan; one request is handled at a time, ticks going on meanwhile.        *)

CoreInit ==
  /\ variant \in {1, 2}
  /\ hostOffset = TokyoOffset
  /\ lineToken = TRUE
  /\ lineSecret = "s3cret"
  /\ clock = EvalStart
  /\ advances = 0
  /\ plan = EvalPlan
  /\ reminders = [NoTable EXCEPT ![IdA][1] = NewReminder("Z", EventNine, TRUE, TRUE)]
  /\ links = [id \in {IdA, IdB} |-> NoLink]
  /\ tick = [t \in TickIds |-> IdleTick]
  /\ ticksStarted = 0
  /\ failures = 0
  /\ pushed = [s \in Slots |-> 0]
  /\ delivered = [s \in Slots |-> 0]
  /\ overlapped = FALSE
  /\ lastTick = NoTickYet
  /\ pendingLinks = [c \in Codes |-> NoPending]
  /\ hook = [h \in HookIds |-> NoHook]
  /\ replies = [c \in Codes |-> NoReplies]
  /\ linkWrites = [c \in Codes |-> 0]

NoRequest == \A h \in HookIds : ~InFlight(h)

CoreNext ==
  \/ \E d \in {0, 1} : StartTickAlone(d)
  \/ \E t \in TickIds, ok \in BOOLEAN : SnapshotDone(t, ok)
  \/ \E t \in TickIds, ok \in BOOLEAN : LinkDone(t, ok)
  \/ \E t \in TickIds, ok \in BOOLEAN : PushDone(t, ok)
  \/ \E t \in TickIds, ok \in BOOLEAN : SetDone(t, ok)
  \/ NoRequest /\ RequestToken(EmailAB, "100000", 0)
  \/ NoRequest /\ \E h \in HookIds : Webhook(h, Signed(LinkMessage("U1")), 0)
  \/ \E h \in HookIds, ok \in BOOLEAN : HookSetDone(h, ok)
  \/ \E h \in HookIds, ok \in BOOLEAN : HookReplyDone(h, ok)

SpecCore == CoreInit /\ [][CoreNext]_vars

(* C12: a Sent flag only ever goes from false to true, and the reminders    *)
(* table changes only by a tick's flag write, whatever ticks, issuances and *)
(* webhook handlers do.                                                     *)
C12_FlagsOnlyRise ==
  [][/\ \A s \in Slots : SentFlag(reminders, s) => SentFlag(reminders', s)
     /\ reminders' # reminders =>
          \E t \in TickIds, s \in Slots :
            /\ tick[t].pc = "set" /\ s = Slot(tick[t].id, tick[t].pos)
            /\ \A u \in Slots : SentFlag(reminders', u) <=> (u = s \/ SentFlag(reminders, u))]_vars

(* A code was redeemed and ticks have raised two flags of one reminder.     *)
C12_Witness ==
  /\ \E h \in HookIds : hook[h].outcome = "bound"
  /\ reminders[IdA][1].morningSent /\ reminders[IdA][1].oneHourSent

-----------------------------------------------------------------------------
(* Restarts and downtime.  The process stops while a callback is suspended  *)
(* and starts again: the callback is gone with everything in memory (the    *)
(* pendingLinks map, line 92), the store keeps what was written.  Downtime  *)
(* is the scheduler's next firing coming several instants of the plan       *)
(* later.  One linked identity, its reminder's thresholds all ahead, a host *)
(* in Asia/Tokyo.                                                           *)

Restart(t) ==
  /\ Busy(t)
  /\ Finish(t, tick[t], "killed")
  /\ pendingLinks' = [c \in Codes |-> NoPending]
  /\ UNCHANGED <<envVars, hookVars, clock, advances, reminders, links, ticksStarted,
                 failures, pushed, delivered, overlapped>>

RestartInit ==
  /\ variant \in {1, 2}
  /\ hostOffset = TokyoOffset
  /\ lineToken \in BOOLEAN
  /\ lineSecret = "set"
  /\ clock = EvalStart
  /\ advances = 0
  /\ plan = EvalPlan
  /\ \E morning, oneHour \in BOOLEAN :
       reminders = [NoTable EXCEPT ![IdA][1] = NewReminder("Z", EventNine, morning, oneHour)]
  /\ links = [id \in {IdA, IdB} |-> IF id = IdA THEN LinkTo("U1") ELSE NoLink]
  /\ tick = [t \in TickIds |-> IdleTick]
  /\ ticksStarted = 0
  /\ failures = 0
  /\ pushed = [s \in Slots |-> 0]
  /\ delivered = [s \in Slots |-> 0]
  /\ overlapped = FALSE
  /\ lastTick = NoTickYet
  /\ pendingLinks = [c \in Codes |-> NoPending]
  /\ hook = [h \in HookIds |-> NoHook]
  /\ replies = [c \in Codes |-> NoReplies]
  /\ linkWrites = [c \in Codes |-> 0]

RestartNext ==
  \/ \E d \in 0..MaxAdvance : StartTickAlone(d)
  \/ \E t \in TickIds, ok \in BOOLEAN : SnapshotDone(t, ok)
  \/ \E t \in TickIds, ok \in BOOLEAN : LinkDone(t, ok)
  \/ \E t \in TickIds, ok \in BOOLEAN : PushDone(t, ok)
  \/ \E t \in TickIds, ok \in BOOLEAN : SetDone(t, ok)
  \/ \E t \in TickIds : Restart(t)

SpecRestart == RestartInit /\ [][RestartNext]_vars

(* The exact window of the reminder is over: from here on no tick finds the *)
(* exact trigger due, and the other two thresholds have long passed.        *)
WindowOver(t) == t >= EventNine + TenMinutes

(* C13: with every threshold ahead at creation, each enabled kind fires,    *)
(* and fires exactly once, whatever the schedule of ticks, restarts and     *)
(* downtime: no kind is pushed twice, and a tick that has run to its end    *)
(* after the exact window leaves every enabled kind pushed once; this also  *)
(* when no store or platform operation fails.                               *)
C13_EachKindOnceDespiteRestarts ==
  failures = 0 =>
    /\ \A s \in Slots : pushed[s] <= 1
    /\ (TickOver /\ lastTick.ending = "done" /\ WindowOver(lastTick.t0)) =>
         \A k \in 1..NumKinds :
           (k = 3 \/ (k = 1 /\ reminders[IdA][1].morning)
                  \/ (k = 2 /\ reminders[IdA][1].oneHour))
             => pushed[<<1, 1, k>>] = 1

-----------------------------------------------------------------------------
(* Failures inside a tick. *)

(* Trigger s0 was pushed in the last tick and the write of its flag failed. *)
FlagWriteFailed(s0) == s0 \in lastTick.fired /\ ~SentFlag(reminders, s0)

(* C14: the triggers of a reminder are independent within a tick: all that  *)
(* are due fire and are flagged, and when the write of one trigger's flag   *)
(* fails, the other due triggers of that identity's reminders still fire in *)
(* that tick.                                                               *)
C14_FlagFailureDoesNotBlock ==
  TickOver =>
    /\ (lastTick.ending = "done" /\ lastTick.errs = {}) =>
         \A s \in Slots : (Linked(s) /\ DueIn(lastTick, s)) => FiredAndFlagged(s)
    /\ \A s0 \in Slots :
         FlagWriteFailed(s0) =>
           \A s \in Slots : (s[1] = s0[1] /\ DueIn(lastTick, s)) => s \in lastTick.fired

(* The pushes that did not reach the platform or were refused by it. *)
Undelivered(s) == pushed[s] - delivered[s]

RECURSIVE TotalUndelivered(_)
TotalUndelivered(S) ==
  IF S = {} THEN 0
  ELSE LET s == CHOOSE x \in S : TRUE
       IN  Undelivered(s) + TotalUndelivered(S \ {s})

(* Every operation that has failed so far was a push. *)
OnlyPushesFailed ==
  IF lineToken THEN failures = TotalUndelivered(Slots) ELSE failures = 0

NoneMalformed(tk) == \A s \in Slots : ~ReminderAt(tk.snap, s).malformed

(* C15: a failed push does not reach the tick: when pushes are all that     *)
(* failed and a push of the last tick failed, the tick ran to its end       *)
(* without an error and pushed every due trigger of every linked identity.  *)
C15_PushFailureContained ==
  (/\ TickOver
   /\ OnlyPushesFailed
   /\ NoneMalformed(lastTick)
   /\ \E s0 \in lastTick.fired : Undelivered(s0) > 0) =>
    /\ lastTick.ending = "done" /\ lastTick.errs = {}
    /\ \A s \in Slots : (Linked(s) /\ DueIn(lastTick, s)) => s \in lastTick.fired

(* A push was refused by the platform and later pushes of the same tick     *)
(* were delivered, for the same identity and for the next one.              *)
C15_Witness ==
  /\ TickOver /\ lineToken /\ failures = 1 /\ OnlyPushesFailed
  /\ lastTick.ending = "done"
  /\ \E s0, s1, s2 \in lastTick.fired :
       /\ Undelivered(s0) = 1
       /\ s1[1] = s0[1] /\ s1[3] > s0[3] /\ delivered[s1] = 1
       /\ s2[1] > s0[1] /\ delivered[s2] = 1

(* C16: a delivery failure is not retried: when pushes are all that failed, *)
(* a trigger whose push failed or was skipped has its flag set once the     *)
(* tick is over, has been pushed once and delivered never, whatever ticks   *)
(* follow.                                                                  *)
C16_FailedPushNotRetried ==
  (TickOver /\ OnlyPushesFailed) =>
    \A s \in Slots :
      Undelivered(s) > 0 =>
        (SentFlag(reminders, s) /\ pushed[s] = 1 /\ delivered[s] = 0)

(* The morning push of a reminder failed in one tick; a later tick, past    *)
(* the threshold as well, ran to its end and did not push it again.         *)
C16_Witness ==
  /\ TickOver /\ OnlyPushesFailed /\ ticksStarted = 2
  /\ lastTick.ending = "done"
  /\ \E s \in Slots :
       /\ s[3] = 1 /\ Linked(s) /\ Undelivered(s) = 1 /\ pushed[s] = 1
       /\ s \notin lastTick.fired
       /\ WellFormed(lastTick, s)
       /\ ReminderAt(lastTick.snap, s).morningSent
       /\ Due([ReminderAt(lastTick.snap, s) EXCEPT !.morningSent = FALSE], 1,
              lastTick.now, hostOffset)

-----------------------------------------------------------------------------
(* Links and recipients. *)

(* Tick t is suspended at a push or at the flag write that follows it. *)
Pushing(t) == tick[t].pc \in {"push", "set"}

(* C17: a tick pushes and flags only for identities with a link record: the *)
(* push under way goes to the lineUserId of the identity's link record, and *)
(* for an identity without a link nothing is pushed and no flag is set,     *)
(* however overdue its triggers are.                                        *)
C17_OnlyLinkedIdentities ==
  /\ \A t \in TickIds :
       Pushing(t) =>
         /\ links[Ids[tick[t].id]].exists
         /\ tick[t].user = links[Ids[tick[t].id]].lineUserId
  /\ \A s \in Slots :
       ~Linked(s) => (pushed[s] = 0 /\ ~SentFlag(reminders, s))

(* A tick one hour past the morning and one-hour thresholds has passed over *)
(* the unlinked identity a_b, whose reminder has both enabled, and is       *)
(* pushing to the linked identity c's user.                                 *)
C17_Witness ==
  \E t \in TickIds :
    /\ tick[t].pc = "push" /\ tick[t].id = 2 /\ tick[t].user = "U2"
    /\ tick[t].t0 >= EventNine
    /\ ~links[IdA].exists
    /\ tick[t].snap[IdA][1].exists /\ tick[t].snap[IdA][1].morning
    /\ ~tick[t].snap[IdA][1].morningSent /\ pushed[<<1, 1, 1>>] = 0

-----------------------------------------------------------------------------
(* Code collision: Math.random() gives c's request, an instant later, the   *)
(* code that is in the registry for a.b.                                    *)

Collides(code) == pendingLinks[code].exists /\ pendingLinks[code].email = EmailAB

CollideNext ==
  \/ Quiet /\ advances < MaxLinkAdvance /\ TimePasses
  \/ Quiet /\ RequestToken(EmailAB, "100000", 0)
  \/ Quiet /\ Collides("100000") /\ RequestToken(EmailC, "100000", 1)
  \/ Quiet /\ \E h \in HookIds : Webhook(h, Signed(LinkMessage("U1")), 0)
  \/ \E h \in HookIds, ok \in BOOLEAN : HookSetDone(h, ok)
  \/ \E h \in HookIds, ok \in BOOLEAN : HookReplyDone(h, ok)

SpecCollide == LinkInit /\ [][CollideNext]_vars

(* C18: an issuance puts its email and its own expiry under the code,       *)
(* whatever entry was there; a link record is written only for the email of *)
(* the entry then in the registry, and only before that entry's expiry; so  *)
(* after a collision the code binds the later email until the later expiry  *)
(* and never the earlier email.                                             *)
C18_LastWriterWins ==
  [][/\ \A email \in {EmailAB, EmailC}, d \in {0, 1} :
          RequestToken(email, "100000", d) =>
            pendingLinks'["100000"] =
              [exists |-> TRUE, email |-> email, expires |-> clock' + FiveMinutes]
     /\ links' # links =>
          \E c \in Codes :
            /\ pendingLinks[c].exists /\ clock < pendingLinks[c].expires
            /\ links'[SafeEmail(pendingLinks[c].email)].exists
            /\ \A id \in {IdA, IdB} :
                 links'[id] # links[id] => id = SafeEmail(pendingLinks[c].email)]_vars

(* The code issued for a.b and then for c was presented when a.b's expiry   *)
(* had been reached and c's had not: it bound c, and a.b is not bound.      *)
C18_Witness ==
  /\ links[IdB].exists /\ ~links[IdA].exists
  /\ links[IdB].linkedAt >= LinkStart + FiveMinutes
  /\ \E h \in HookIds : hook[h].pc = "done" /\ hook[h].outcome = "bound"
                          /\ hook[h].boundAs = IdB /\ hook[h].status = 200

-----------------------------------------------------------------------------
(* The expiry sweep. *)

(* A tick starts: its first act is the sweep, at the instant clock'. *)
Sweeps == \E t \in TickIds : tick[t].pc = "idle" /\ tick'[t].pc = "snapshot"

(* C19: the sweep removes exactly the entries with expiresAt < now and      *)
(* leaves the others as they are; sweeping again at the same instant        *)
(* changes nothing; and an entry that a redemption at that instant would    *)
(* accept is never removed.                                                 *)
C19_SweepRemovesExactlyExpired ==
  [][Sweeps =>
       /\ \A c \in Codes :
            pendingLinks'[c] =
              IF pendingLinks[c].exists /\ pendingLinks[c].expires < clock'
              THEN NoPending ELSE pendingLinks[c]
       /\ SweepExpired(pendingLinks', clock') = pendingLinks'
       /\ \A c \in Codes :
            (pendingLinks[c].exists /\ clock' < pendingLinks[c].expires) =>
              pendingLinks'[c] = pendingLinks[c]]_vars

(* A sweep ran at the very instant of an entry's expiry and the entry is    *)
(* still there.                                                             *)
C19_Witness ==
  /\ lastTick.ending = "done"
  /\ pendingLinks["100000"].exists
  /\ lastTick.t0 = pendingLinks["100000"].expires

-----------------------------------------------------------------------------
(* Catching up. *)

(* C20: the morning and one-hour triggers have no catch-up bound: in a tick *)
(* that runs to its end without an error, an enabled, unsent morning or     *)
(* one-hour trigger of a linked identity whose threshold has passed is      *)
(* pushed and flagged, however long ago the threshold or the event passed.  *)
C20_NoCatchUpBound ==
  CleanTick =>
    \A s \in Slots :
      (/\ s[3] \in {1, 2}
       /\ Linked(s)
       /\ WellFormed(lastTick, s)
       /\ EnabledUnsent(ReminderAt(lastTick.snap, s), s[3])
       /\ ReachedFixed(ReminderAt(lastTick.snap, s), s[3], lastTick.t0))
        => FiredAndFlagged(s)

(* The first tick after the exact window has closed pushed the morning and  *)
(* the one-hour notification of a reminder and not the exact one.           *)
C20_Witness ==
  /\ CleanTick /\ WindowOver(lastTick.t0) /\ ticksStarted = 1
  /\ \E i \in 1..NumIds, ri \in 1..NumRids :
       /\ <<i, ri, 1>> \in lastTick.fired /\ <<i, ri, 2>> \in lastTick.fired
       /\ <<i, ri, 3>> \notin lastTick.fired
       /\ reminders[Ids[i]][Rids[ri]].morningSent
       /\ reminders[Ids[i]][Rids[ri]].oneHourSent
       /\ ~reminders[Ids[i]][Rids[ri]].exactSent
       /\ ReminderAt(lastTick.snap, <<i, ri, 3>>).timeISO.t = EventNine

====
